---- MODULE Spec2Model ----
(***************************************************************************)
(* Model of the voter turnout scorer: TurnoutConfig validation             *)
(* (turnout_config.py) and the TurnoutScorer pipeline (turnout_scorer.py): *)
(* preprocessing, effective registration date, vote record cleaning,       *)
(* turnout weighting, aggregation and cohort normalisation.                *)
(*                                                                         *)
(* Conventions.                                                            *)
(*   - A nullable cell (Python None / SQL NULL) is a sequence of length at *)
(*     most one: None is <<>>, a present value v is <<v>>.                 *)
(*   - A text holding a date is [sep, fields]: the numeric fields in the   *)
(*     order they are written and the separator between them.  The text    *)
(*     'null' is a text with no numeric field.                             *)
(*   - A strftime/strptime format is [sep, order]: the directives in the   *)
(*     order they are written ("Y", "m", "d") and the separator.           *)
(*   - A date is a record [Y, m, d]; a float is an exact fraction <<n, d>>.*)
(*   - A configuration value carries its Python type: [type, val].         *)
(***************************************************************************)
EXTENDS Integers, Sequences, FiniteSets, TLC

VARIABLES config, voter_file, pc, err, warnings, filter_on_parties,
          sorted_vote_histories, voters_df, year_of_birth,
          effective_reg_date, cleaned, weighted, weighted_turnout,
          normalized_turnout

vars == <<config, voter_file, pc, err, warnings, filter_on_parties,
          sorted_vote_histories, voters_df, year_of_birth,
          effective_reg_date, cleaned, weighted, weighted_turnout,
          normalized_turnout>>

\* ---------------------------------------------------------------- bounds
\* Largest number of rows of the voter file.
MaxVoters == 2

\* ------------------------------------------------------- nullable values
None == <<>>

Some(v) == <<v>>

\* ------------------------------------------------------------ fractions
RECURSIVE GCD(_, _)
GCD(a, b) == IF b = 0 THEN a ELSE GCD(b, a % b)

Abs(n) == IF n < 0 THEN 0 - n ELSE n

\* The fraction n/d (d > 0) in lowest terms.
Frac(n, d) == LET g == GCD(Abs(n), d) IN <<n \div g, d \div g>>

FZero == <<0, 1>>

FOne == <<1, 1>>

FAdd(a, b) == Frac(a[1] * b[2] + b[1] * a[2], a[2] * b[2])

FSub(a, b) == Frac(a[1] * b[2] - b[1] * a[2], a[2] * b[2])

FMul(a, b) == Frac(a[1] * b[1], a[2] * b[2])

\* a / b for b > 0.
FDiv(a, b) == Frac(a[1] * b[2], a[2] * b[1])

FLe(a, b) == a[1] * b[2] <= b[1] * a[2]

\* ------------------------------------------------- dates, texts, formats
MkDate(y, m, d) == [Y |-> y, m |-> m, d |-> d]

Text(sep, fields) == [sep |-> sep, fields |-> fields]

Format(sep, order) == [sep |-> sep, order |-> order]

\* The text 'null', the marker of a missing value in the voter file.
NullText == Text("null", <<>>)

\* datetime.date.today()
Today == MkDate(2026, 11, 5)

\* '%m-%d-%Y'
VHIST_DATE_FORMAT == Format("-", <<"m", "d", "Y">>)

\* '%Y-%m-%d', also the layout of str(datetime.date)
ISO_FORMAT == Format("-", <<"Y", "m", "d">>)

\* '%m/%d/%Y'
US_FORMAT == Format("/", <<"m", "d", "Y">>)

\* '%Y-%m', a format that does not write the day
YM_FORMAT == Format("-", <<"Y", "m">>)

IsLeap(y) == (y % 4 = 0 /\ y % 100 # 0) \/ y % 400 = 0

DaysInMonth(y, m) ==
    IF m = 2 THEN (IF IsLeap(y) THEN 29 ELSE 28)
    ELSE IF m \in {4, 6, 9, 11} THEN 30 ELSE 31

\* The field a directive of the format reads from the text, or the
\* default of strptime when the format does not have the directive.
FieldOf(text, fmt, dir, default) ==
    IF \E i \in 1..Len(fmt.order) : fmt.order[i] = dir
    THEN text.fields[CHOOSE i \in 1..Len(fmt.order) : fmt.order[i] = dir]
    ELSE default

ParsedDate(text, fmt) ==
    MkDate(FieldOf(text, fmt, "Y", 1900), FieldOf(text, fmt, "m", 1),
           FieldOf(text, fmt, "d", 1))

\* datetime.datetime.strptime(text, fmt) does not raise ValueError.
Parses(text, fmt) ==
    /\ text.sep = fmt.sep
    /\ Len(text.fields) = Len(fmt.order)
    /\ LET dt == ParsedDate(text, fmt) IN
         /\ dt.Y \in 1000..9999
         /\ dt.m \in 1..12
         /\ dt.d \in 1..DaysInMonth(dt.Y, dt.m)

\* datetime.datetime.strptime(text, fmt): None stands for ValueError.
strptime(text, fmt) ==
    IF Parses(text, fmt) THEN Some(ParsedDate(text, fmt)) ELSE None

\* date.strftime(fmt)
strftime(date, fmt) ==
    Text(fmt.sep, [i \in 1..Len(fmt.order) |-> date[fmt.order[i]]])

\* str(datetime.date)
StrOfDate(date) == strftime(date, ISO_FORMAT)

DateKey(date) == (date.Y * 100 + date.m) * 100 + date.d

DateLt(a, b) == DateKey(a) < DateKey(b)

DateLe(a, b) == DateKey(a) <= DateKey(b)

\* --------------------------------------------------- configuration values
Dict(f) == [type |-> "dict", val |-> f]

\* A dict together with the order in which it yields its keys.
OrderedDict(f, keys) == [type |-> "dict", val |-> f, keys |-> keys]

List(s) == [type |-> "list", val |-> s]

Str(s) == [type |-> "str", val |-> s]

PyNone == [type |-> "NoneType", val |-> <<>>]

\* dict.get(key) is None
GetIsNone(cfg, key) == key \notin DOMAIN cfg \/ cfg[key].type = "NoneType"

Range(s) == {s[i] : i \in 1..Len(s)}

REQUIRED_FIELDS_IN_CONFIG ==
    [voter_file |-> {"bucket", "key_pattern"},
     column_names |-> {"dob_field", "id_field", "party_field",
                       "reg_date_field"},
     formats |-> {"reg_date", "dob"}]

\* The order in which iteritems() yields REQUIRED_FIELDS_IN_CONFIG.
ReqFieldOrder == <<"voter_file", "column_names", "formats">>

VOTED_VALUES == "voted_values"

VOTE_HISTORIES == "vote_histories"

ELEMENTS_REQ_IN_VALUES_VF == <<VOTED_VALUES, "parties_included">>

SET_REQ_FIELDS == DOMAIN REQUIRED_FIELDS_IN_CONFIG
                     \cup {VOTE_HISTORIES, VOTED_VALUES}

NoError == [type |-> "none", names |-> {}]

Error(type, names) == [type |-> type, names |-> names]

\* A variant that only looks for missing sub-keys.
SubKeysMissing(set_cfg_sub, vlues) == ~(vlues \subseteq set_cfg_sub)

\* set_cfg_sub != set(vlues)
SubKeysDiffer(set_cfg_sub, vlues) == set_cfg_sub # vlues

\* The loop over REQUIRED_FIELDS_IN_CONFIG from its i-th item on: the
\* first error raised, or NoError.
RECURSIVE CheckReqFields(_, _)
CheckReqFields(cfg, i) ==
    IF i > Len(ReqFieldOrder) THEN NoError
    ELSE LET req_field == ReqFieldOrder[i]
             vlues == REQUIRED_FIELDS_IN_CONFIG[req_field]
         IN  IF cfg[req_field].type # "dict"
             THEN Error("TypeError", {req_field})
             ELSE IF SubKeysDiffer(DOMAIN cfg[req_field].val, vlues)
             THEN Error("KeyError", vlues \ DOMAIN cfg[req_field].val)
             ELSE CheckReqFields(cfg, i + 1)

\* The loop over the vote histories from the i-th item on.
RECURSIVE CheckVoteHistories(_, _)
CheckVoteHistories(vh, i) ==
    IF i > Len(vh.keys) THEN NoError
    ELSE IF strptime(vh.val[vh.keys[i]], VHIST_DATE_FORMAT) = None
    THEN Error("ValueError", {vh.keys[i]})
    ELSE CheckVoteHistories(vh, i + 1)

\* The loop over ELEMENTS_REQ_IN_VALUES_VF from its i-th item on.
RECURSIVE CheckListTyped(_, _)
CheckListTyped(cfg, i) ==
    IF i > Len(ELEMENTS_REQ_IN_VALUES_VF) THEN NoError
    ELSE LET elms_req == ELEMENTS_REQ_IN_VALUES_VF[i] IN
         IF ~GetIsNone(cfg, elms_req) /\ cfg[elms_req].type # "list"
         THEN Error("TypeError", {elms_req})
         ELSE CheckListTyped(cfg, i + 1)

\* TurnoutConfig._validated_config: the error it raises, or NoError.
ValidatedConfig(cfg) ==
    IF SET_REQ_FIELDS \cap DOMAIN cfg # SET_REQ_FIELDS
    THEN Error("KeyError", SET_REQ_FIELDS \ DOMAIN cfg)
    ELSE IF CheckReqFields(cfg, 1) # NoError
    THEN CheckReqFields(cfg, 1)
    ELSE IF cfg[VOTE_HISTORIES].type # "dict"
    THEN Error("TypeError", {VOTE_HISTORIES})
    ELSE IF CheckVoteHistories(cfg[VOTE_HISTORIES], 1) # NoError
    THEN CheckVoteHistories(cfg[VOTE_HISTORIES], 1)
    ELSE CheckListTyped(cfg, 1)

\* ------------------------------------------------- configuration accessors
\* TurnoutConfig.s3_creds: the error it raises, or NoError.
s3_creds(cfg) ==
    IF GetIsNone(cfg, "s3_creds") THEN Error("KeyError", {"s3_creds"})
    ELSE IF cfg["s3_creds"].type # "dict"
    THEN Error("TypeError", {"s3_creds"})
    ELSE NoError

\* TurnoutConfig.parties_included: the list of parties, or None.
parties_included(cfg) ==
    IF GetIsNone(cfg, "parties_included") THEN None
    ELSE IF Len(cfg["parties_included"].val) = 0 THEN None
    ELSE Some(cfg["parties_included"].val)

\* The warnings TurnoutConfig.parties_included logs.
PartiesWarnings(cfg) ==
    IF GetIsNone(cfg, "parties_included") THEN {"parties_included missing"}
    ELSE IF Len(cfg["parties_included"].val) = 0
    THEN {"parties_included empty"}
    ELSE {}

\* ColumnNames.dob_field, id_field, party_field, reg_date_field
ColumnName(cfg, req_column) == cfg["column_names"].val[req_column]

\* The list REQUIRED_FIELDS_IN_CONFIG['column_names'].
ReqColumnOrder == <<"dob_field", "id_field", "party_field", "reg_date_field">>

\* The configured names of the required columns.
ReqColumnNames(cfg) ==
    [i \in 1..Len(ReqColumnOrder) |-> ColumnName(cfg, ReqColumnOrder[i])]

\* TurnoutConfig.columns_to_keep
columns_to_keep(cfg) == ReqColumnNames(cfg) \o cfg[VOTE_HISTORIES].keys

\* The first name of the list that is not a column, as a set.
RECURSIVE FirstMissing(_, _, _)
FirstMissing(names, i, df_columns) ==
    IF i > Len(names) THEN {}
    ELSE IF names[i] \notin df_columns THEN {names[i]}
    ELSE FirstMissing(names, i + 1, df_columns)

\* TurnoutConfig.validate_against_voter_file: the error raised, or NoError.
validate_against_voter_file(cfg, df_columns) ==
    IF FirstMissing(cfg[VOTE_HISTORIES].keys, 1, df_columns) # {}
    THEN Error("KeyError",
               FirstMissing(cfg[VOTE_HISTORIES].keys, 1, df_columns))
    ELSE IF FirstMissing(ReqColumnNames(cfg), 1, df_columns) # {}
    THEN Error("KeyError", FirstMissing(ReqColumnNames(cfg), 1, df_columns))
    ELSE NoError

\* ----------------------------------------------------------- preprocessing
IsNullText(cell) == cell = None \/ cell = Some(NullText)

IsNullCode(cell) == cell = None \/ cell = Some("null")

\* voter_history_df[columns_to_keep]
Project(rows, columns) ==
    [i \in 1..Len(rows) |-> [c \in Range(columns) |-> rows[i][c]]]

\* vdf[vdf[party_field].isin(parties_to_include)]: a null party is not in
\* any list.
IsIn(rows, party_field, parties_to_include) ==
    SelectSeq(rows, LAMBDA row : /\ row[party_field] # None
                                 /\ row[party_field][1]
                                        \in Range(parties_to_include))

\* The rows after projection and party filtering.
FilteredVdf(cfg, df) ==
    LET vdf == Project(df.rows, columns_to_keep(cfg)) IN
    IF parties_included(cfg) # None
    THEN IsIn(vdf, ColumnName(cfg, "party_field"), parties_included(cfg)[1])
    ELSE vdf

\* A variant that only reports a table that gained rows.
HasMoreDistinct(vdf, count_vdf) == Cardinality(Range(vdf)) > count_vdf

\* vdf.distinct().count() != count_vdf
HasDuplicates(vdf, count_vdf) == Cardinality(Range(vdf)) # count_vdf

\* get_year_ob: the year, or None when strptime raises ValueError.
get_year_ob(date_input, dob_format) ==
    IF ~IsNullText(date_input)
    THEN (IF Parses(date_input[1], dob_format)
          THEN Some(ParsedDate(date_input[1], dob_format).Y)
          ELSE None)
    ELSE Some(Today.Y - 18)

\* TurnoutScorer._preprocess_vf: the error raised (or NoError), the table
\* and its year_of_birth column.
preprocess_vf(cfg, df) ==
    LET vdf == FilteredVdf(cfg, df)
        count_vdf == Len(vdf)
        dob_format == cfg["formats"].val["dob"]
        dob_field == ColumnName(cfg, "dob_field")
        yob == [i \in 1..Len(vdf) |-> get_year_ob(vdf[i][dob_field],
                                                  dob_format)]
    IN  IF validate_against_voter_file(cfg, df.columns) # NoError
        THEN [err |-> validate_against_voter_file(cfg, df.columns),
              vdf |-> <<>>, yob |-> <<>>]
        ELSE IF count_vdf = 0
        THEN [err |-> IF parties_included(cfg) = None
                      THEN Error("UnboundLocalError", {"parties_to_include"})
                      ELSE Error("ValueError",
                                 Range(parties_included(cfg)[1])),
              vdf |-> <<>>, yob |-> <<>>]
        ELSE IF HasDuplicates(vdf, count_vdf)
        THEN [err |-> Error("RuntimeError", {"duplicates"}),
              vdf |-> <<>>, yob |-> <<>>]
        ELSE IF \E i \in 1..Len(vdf) : yob[i] = None
        THEN [err |-> Error("ValueError", {dob_field}),
              vdf |-> <<>>, yob |-> <<>>]
        ELSE [err |-> NoError, vdf |-> vdf,
              yob |-> [i \in 1..Len(vdf) |-> yob[i][1]]]

\* ------------------------------------------- effective registration date
\* The date of an election of the configuration.
ElectionDate(vhs_w_d, election) ==
    ParsedDate(vhs_w_d[election], VHIST_DATE_FORMAT)

\* sorted(): the keys in ascending date order, equal dates in the order met.
RECURSIVE SortedFrom(_, _, _)
SortedFrom(keys, i, acc) ==
    IF i > Len(keys) THEN acc
    ELSE LET p == Cardinality({j \in 1..Len(acc) :
                                 DateLe(acc[j].date, keys[i].date)})
         IN  SortedFrom(keys, i + 1,
                        SubSeq(acc, 1, p) \o <<keys[i]>>
                            \o SubSeq(acc, p + 1, Len(acc)))

\* A variant that leaves the elections in the order of the dict.
unsorted_vote_histories(vote_histories) == vote_histories.keys

\* TurnoutScorer._sort_vote_histories
sort_vote_histories(vote_histories) ==
    LET dct == [i \in 1..Len(vote_histories.keys) |->
                  [key |-> vote_histories.keys[i],
                   date |-> ElectionDate(vote_histories.val,
                                         vote_histories.keys[i])]]
        sorted_histories == SortedFrom(dct, 1, <<>>)
    IN  [i \in 1..Len(sorted_histories) |-> sorted_histories[i].key]

\* The loop of effective_regis_date from index idx on: the index of the
\* first election with a recorded value, 0 when there is none.
\* A variant whose loop does not stop at the first recorded value.
RECURSIVE LastRecorded(_, _)
LastRecorded(arr_of_elec, idx) ==
    IF idx > Len(arr_of_elec) THEN 0
    ELSE IF LastRecorded(arr_of_elec, idx + 1) # 0
    THEN LastRecorded(arr_of_elec, idx + 1)
    ELSE IF ~IsNullCode(arr_of_elec[idx]) THEN idx ELSE 0

RECURSIVE FirstRecorded(_, _)
FirstRecorded(arr_of_elec, idx) ==
    IF idx > Len(arr_of_elec) THEN 0
    ELSE IF ~IsNullCode(arr_of_elec[idx]) THEN idx
    ELSE FirstRecorded(arr_of_elec, idx + 1)

\* effective_regis_date
effective_regis_date(arr_of_elec, svh, vhs_w_d, reg_date_format) ==
    LET idx == FirstRecorded(arr_of_elec, 1)
        first_election_date ==
            IF idx = 0 THEN Today ELSE ElectionDate(vhs_w_d, svh[idx])
    IN  strftime(first_election_date, reg_date_format)

\* array(self.sorted_vote_histories) of a row
ArrayOf(row, columns) == [k \in 1..Len(columns) |-> row[columns[k]]]

\* ---------------------------------------------------------------- cleaning
\* A variant that takes the election day itself as too early.
IsEligibleBefore(reg_date, elections_date) == DateLt(reg_date, elections_date)

\* reg_date <= elections_date
IsEligible(reg_date, elections_date) == DateLe(reg_date, elections_date)

\* clean_voting_record
clean_voting_record(vote, eff_reg_date, reg_date, elections_date, reg_date_format, voted_values) ==
    LET reg_text == IF IsNullText(reg_date) THEN StrOfDate(Today)
                    ELSE reg_date[1]
        e_date == ParsedDate(elections_date, VHIST_DATE_FORMAT)
        r_date == strptime(reg_text, reg_date_format)
        f_date == strptime(eff_reg_date, reg_date_format)
    IN  IF r_date = None \/ f_date = None THEN None
        ELSE LET elig == IF DateLt(f_date[1], r_date[1]) THEN f_date[1]
                         ELSE r_date[1]
             IN  IF IsEligible(elig, e_date)
                 THEN (IF vote # None /\ vote[1] \in Range(voted_values)
                       THEN Some(1) ELSE Some(0))
                 ELSE None

\* ---------------------------------------------------------------- weighting
RECURSIVE SumInts(_, _)
SumInts(col, i) ==
    IF i > Len(col) THEN 0
    ELSE (IF col[i] = None THEN 0 ELSE col[i][1]) + SumInts(col, i + 1)

\* SELECT SUM(col)/COUNT(col) WHERE col IS NOT NULL: NULL over no row.
norm_fac(col) ==
    LET count == Cardinality({i \in 1..Len(col) : col[i] # None}) IN
    IF count = 0 THEN None ELSE Some(Frac(SumInts(col, 1), count))

\* col(election) * (1. - nrm_fac)
WeightedCol(col, nrm_fac) ==
    [i \in 1..Len(col) |->
       IF col[i] = None THEN None
       ELSE Some(FMul(<<col[i][1], 1>>, FSub(FOne, nrm_fac)))]

\* The loop of _add_weighted_vote from the k-th election on; the loop
\* stops with TypeError at 1. - None.
RECURSIVE add_weighted_vote(_, _, _, _)
add_weighted_vote(svh, k, cl, w) ==
    IF k > Len(svh) THEN [err |-> NoError, weighted |-> w]
    ELSE IF norm_fac(cl[svh[k]]) = None
    THEN [err |-> Error("TypeError", {svh[k]}), weighted |-> w]
    ELSE add_weighted_vote(svh, k + 1, cl,
             w @@ (svh[k] :> WeightedCol(cl[svh[k]],
                                         norm_fac(cl[svh[k]])[1])))

\* get_weighted_sum
RECURSIVE get_weighted_sum(_, _)
get_weighted_sum(arr_of_elec, k) ==
    IF k > Len(arr_of_elec) THEN FZero
    ELSE FAdd(IF arr_of_elec[k] = None THEN FZero ELSE arr_of_elec[k][1],
              get_weighted_sum(arr_of_elec, k + 1))

\* ------------------------------------------------------------ normalisation
FMax(S) == CHOOSE m \in S : \A x \in S : FLe(x, m)

FMin(S) == CHOOSE m \in S : \A x \in S : FLe(m, x)

\* A variant that takes the smallest score of the cohort.
min_to(i, wt, cohort) ==
    FMin({wt[j] : j \in {j \in 1..Len(wt) : cohort[j] = cohort[i]}})

\* MAX(weighted_turnout) OVER (PARTITION BY effective_reg_date)
max_to(i, wt, cohort) ==
    FMax({wt[j] : j \in {j \in 1..Len(wt) : cohort[j] = cohort[i]}})

\* weighted_turnout / max_to: NULL when the divisor is 0.
normalize_turnout(wt, cohort) ==
    [i \in 1..Len(wt) |->
       IF max_to(i, wt, cohort) = FZero THEN None
       ELSE Some(FDiv(wt[i], max_to(i, wt, cohort)))]

\* ------------------------------------------------------------------ inputs
\* The elections of the configuration and their dates, as written.
VoteHistoriesVal ==
    [g2016 |-> Text("-", <<11, 8, 2016>>),
     g2018 |-> Text("-", <<11, 6, 2018>>)]

ColumnNamesVal ==
    [dob_field |-> "dob", id_field |-> "id", party_field |-> "party",
     reg_date_field |-> "reg_date"]

VoterFileVal == [bucket |-> "bucket", key_pattern |-> "key"]

FormatsVal(reg_date_format) ==
    [reg_date |-> reg_date_format, dob |-> ISO_FORMAT]

\* A valid configuration without parties_included.
BaseConfig(reg_date_format, keys) ==
    [voter_file |-> Dict(VoterFileVal),
     column_names |-> Dict(ColumnNamesVal),
     formats |-> Dict(FormatsVal(reg_date_format)),
     vote_histories |-> OrderedDict(VoteHistoriesVal, keys),
     voted_values |-> List(<<"Y">>),
     s3_creds |-> Dict(VoterFileVal)]

AllColumns == {"id", "dob", "party", "reg_date", "county", "g2016", "g2018"}

MkRow(id, dob, party, reg_date, county, g2016, g2018) ==
    [id |-> Some(id), dob |-> dob, party |-> party, reg_date |-> reg_date,
     county |-> Some(county), g2016 |-> g2016, g2018 |-> g2018]

\* The values of the cells the inputs are drawn from.
RegDateChoices ==
    <<None, Some(NullText), Some(Text("-", <<2017, 6, 1>>)),
      Some(Text("/", <<6, 1, 2017>>))>>

G2016Choices == <<None, Some("Y"), Some("N")>>

G2018Choices == <<None, Some("null"), Some("Y"), Some("N")>>

PartyChoices == <<None, Some("D"), Some("R")>>

DobChoices == <<None, Some(Text("-", <<1990, 4, 2>>))>>

CountyChoices == <<"X", "Y">>

\* The parties_included values the inputs are drawn from.
PartiesChoices ==
    {PyNone, List(<<>>), List(<<"D">>), List(<<"G">>), List(<<"D", "R">>)}

\* Rows are listed in a fixed order of their choices: the order of the
\* rows of a table plays no part in the pipeline.
NonDecreasing(pick, n) ==
    \A k \in 1..(n - 1) :
        \E j \in 1..Len(pick[k]) :
            /\ \A h \in 1..(j - 1) : pick[k][h] = pick[k + 1][h]
            /\ IF j = Len(pick[k]) THEN pick[k][j] <= pick[k + 1][j]
               ELSE pick[k][j] < pick[k + 1][j]

InitRest ==
    /\ pc = "init"
    /\ err = NoError
    /\ warnings = {}
    /\ filter_on_parties = TRUE
    /\ sorted_vote_histories = None
    /\ voters_df = <<>>
    /\ year_of_birth = <<>>
    /\ effective_reg_date = <<>>
    /\ cleaned = <<>>
    /\ weighted = <<>>
    /\ weighted_turnout = <<>>
    /\ normalized_turnout = <<>>

\* Voters with distinct ids and every registration date and vote code,
\* under a valid configuration that does not filter on party.
InitScoring ==
    /\ \E fmt \in {ISO_FORMAT, US_FORMAT} :
          config = BaseConfig(fmt, <<"g2018", "g2016">>)
    /\ \E n \in 0..MaxVoters :
       \E pick \in [1..n -> (1..Len(RegDateChoices))
                             \X (1..Len(G2016Choices))
                             \X (1..Len(G2018Choices))] :
          /\ NonDecreasing(pick, n)
          /\ voter_file =
               [columns |-> AllColumns,
                rows |-> [k \in 1..n |->
                            MkRow(k, DobChoices[2], Some("D"),
                                  RegDateChoices[pick[k][1]], "X",
                                  G2016Choices[pick[k][2]],
                                  G2018Choices[pick[k][3]])]]
    /\ InitRest

\* The registration dates written year-month.
YearMonthChoices ==
    <<Some(Text("-", <<2017, 6>>)), Some(Text("-", <<2018, 11>>))>>

\* Voters with distinct ids under a registration date format that does
\* not write the day: the effective registration date loses its day.
InitYearMonth ==
    /\ config = BaseConfig(YM_FORMAT, <<"g2018", "g2016">>)
    /\ \E n \in 0..MaxVoters :
       \E pick \in [1..n -> (1..Len(YearMonthChoices))
                             \X (1..Len(G2016Choices))
                             \X (1..Len(G2018Choices))] :
          /\ NonDecreasing(pick, n)
          /\ voter_file =
               [columns |-> AllColumns,
                rows |-> [k \in 1..n |->
                            MkRow(k, DobChoices[2], Some("D"),
                                  YearMonthChoices[pick[k][1]], "X",
                                  G2016Choices[pick[k][2]],
                                  G2018Choices[pick[k][3]])]]
    /\ InitRest

\* Voters whose ids, parties, dates of birth and counties vary, possibly
\* duplicated, under every parties_included.
InitPreprocess ==
    /\ \E parties \in PartiesChoices :
          config = BaseConfig(ISO_FORMAT, <<"g2018", "g2016">>)
                      @@ ("parties_included" :> parties)
    /\ \E n \in 0..MaxVoters :
       \E pick \in [1..n -> (1..2) \X (1..Len(DobChoices))
                             \X (1..Len(PartyChoices))
                             \X (1..Len(CountyChoices))] :
          /\ NonDecreasing(pick, n)
          /\ voter_file =
               [columns |-> AllColumns,
                rows |-> [k \in 1..n |->
                            MkRow(pick[k][1], DobChoices[pick[k][2]],
                                  PartyChoices[pick[k][3]],
                                  RegDateChoices[3],
                                  CountyChoices[pick[k][4]],
                                  Some("Y"), G2018Choices[pick[k][1] + 2])]]
    /\ InitRest

\* The shapes a required group of the configuration is given.
GroupShapes == {"absent", "notdict", "exact", "missing", "extra"}

GroupValue(full, shape, sub_key) ==
    CASE shape = "exact" -> Dict(full)
      [] shape = "missing" ->
            Dict([k \in DOMAIN full \ {sub_key} |-> full[k]])
      [] shape = "extra" -> Dict(full @@ ("extra" :> full[sub_key]))
      [] OTHER -> Str("x")

\* The shapes vote_histories is given: the last two hold a date that is
\* not written month-day-year, and a day the month does not have.
VoteHistoriesShapes == {"absent", "notdict", "valid", "year_first", "bad_day"}

VoteHistoriesValue(shape) ==
    CASE shape = "valid" -> OrderedDict(VoteHistoriesVal, <<"g2016", "g2018">>)
      [] shape = "year_first" ->
            OrderedDict([VoteHistoriesVal EXCEPT
                           !["g2016"] = Text("-", <<2016, 11, 8>>)],
                        <<"g2018", "g2016">>)
      [] shape = "bad_day" ->
            OrderedDict([VoteHistoriesVal EXCEPT
                           !["g2018"] = Text("-", <<2, 30, 2018>>)],
                        <<"g2018", "g2016">>)
      [] OTHER -> Str("x")

ListShapes == {"absent", "none", "list", "str"}

ListValue(shape, list) ==
    CASE shape = "list" -> List(list)
      [] shape = "none" -> PyNone
      [] OTHER -> Str("Y")

\* The shapes of the rest of the run: the credentials and the columns of
\* the voter file.
EnvShapes == {"ok", "no_s3_creds", "no_party_column"}

SampleRows ==
    <<MkRow(1, DobChoices[2], Some("D"), RegDateChoices[3], "X",
            Some("Y"), Some("N")),
      MkRow(2, None, Some("R"), None, "Y", None, Some("Y"))>>

\* Configurations of every shape, over a fixed voter file.
InitConfig ==
    /\ \E sv \in GroupShapes, sc \in GroupShapes, sf \in GroupShapes,
          vh \in VoteHistoriesShapes, vv \in ListShapes,
          pi \in ListShapes \ {"none"}, env \in EnvShapes :
          /\ config =
               [k \in {"voter_file" : x \in {1} \cap {y \in {1} : sv # "absent"}}
                   \cup {"column_names" : x \in {y \in {1} : sc # "absent"}}
                   \cup {"formats" : x \in {y \in {1} : sf # "absent"}}
                   \cup {"vote_histories" : x \in {y \in {1} : vh # "absent"}}
                   \cup {"voted_values" : x \in {y \in {1} : vv # "absent"}}
                   \cup {"parties_included" : x \in {y \in {1} : pi # "absent"}}
                   \cup {"s3_creds" : x \in {y \in {1} : env # "no_s3_creds"}}
                |-> CASE k = "voter_file" -> GroupValue(VoterFileVal, sv, "bucket")
                      [] k = "column_names" ->
                            GroupValue(ColumnNamesVal, sc, "party_field")
                      [] k = "formats" ->
                            GroupValue(FormatsVal(ISO_FORMAT), sf, "dob")
                      [] k = "vote_histories" -> VoteHistoriesValue(vh)
                      [] k = "voted_values" -> ListValue(vv, <<"Y">>)
                      [] k = "parties_included" -> ListValue(pi, <<"D", "R">>)
                      [] OTHER -> Dict(VoterFileVal)]
          /\ voter_file =
               [columns |-> IF env = "no_party_column"
                            THEN AllColumns \ {"party"} ELSE AllColumns,
                rows |-> [i \in 1..Len(SampleRows) |->
                            [c \in IF env = "no_party_column"
                                   THEN AllColumns \ {"party"} ELSE AllColumns
                             |-> SampleRows[i][c]]]]
    /\ InitRest

Init == InitScoring \/ InitYearMonth \/ InitPreprocess \/ InitConfig

\* ----------------------------------------------------------------- actions
Fail(e) ==
    /\ pc' = "failed"
    /\ err' = e

\* TurnoutConfig.__init__
ConstructConfig ==
    /\ pc = "init"
    /\ IF ValidatedConfig(config) # NoError
       THEN Fail(ValidatedConfig(config))
       ELSE pc' = "config" /\ err' = err
    /\ UNCHANGED <<config, voter_file, warnings, filter_on_parties,
                   sorted_vote_histories, voters_df, year_of_birth,
                   effective_reg_date, cleaned, weighted, weighted_turnout,
                   normalized_turnout>>

\* The rest of TurnoutScorer.__init__: the credentials, then _preprocess_vf.
PreprocessVf ==
    /\ pc = "config"
    /\ IF s3_creds(config) # NoError
       THEN /\ Fail(s3_creds(config))
            /\ UNCHANGED <<warnings, filter_on_parties, voters_df,
                           year_of_birth>>
       ELSE IF validate_against_voter_file(config, voter_file.columns)
                 # NoError
       THEN /\ Fail(validate_against_voter_file(config, voter_file.columns))
            /\ UNCHANGED <<warnings, filter_on_parties, voters_df,
                           year_of_birth>>
       ELSE LET r == preprocess_vf(config, voter_file) IN
            /\ warnings' = warnings \cup PartiesWarnings(config)
            /\ filter_on_parties' = (parties_included(config) # None)
            /\ voters_df' = r.vdf
            /\ year_of_birth' = r.yob
            /\ IF r.err # NoError THEN Fail(r.err)
               ELSE pc' = "preprocessed" /\ err' = err
    /\ UNCHANGED <<config, voter_file, sorted_vote_histories,
                   effective_reg_date, cleaned, weighted, weighted_turnout,
                   normalized_turnout>>

\* TurnoutScorer._add_effective_reg_date
AddEffectiveRegDate ==
    /\ pc = "preprocessed"
    /\ LET svh == sort_vote_histories(config[VOTE_HISTORIES])
           reg_date_format == config["formats"].val["reg_date"]
       IN  /\ sorted_vote_histories' = Some(svh)
           /\ effective_reg_date' =
                [i \in 1..Len(voters_df) |->
                   effective_regis_date(ArrayOf(voters_df[i], svh), svh,
                                        config[VOTE_HISTORIES].val,
                                        reg_date_format)]
    /\ pc' = "dated"
    /\ UNCHANGED <<config, voter_file, err, warnings, filter_on_parties,
                   voters_df, year_of_birth, cleaned, weighted,
                   weighted_turnout, normalized_turnout>>

\* TurnoutScorer._clean_voting_record, after _add_effective_reg_date
CleanVotingRecord ==
    /\ pc = "dated"
    /\ LET reg_date_field == ColumnName(config, "reg_date_field")
           elections == config[VOTE_HISTORIES].val
       IN  cleaned' =
             [election \in DOMAIN elections |->
                [i \in 1..Len(voters_df) |->
                   clean_voting_record(voters_df[i][election],
                                       effective_reg_date[i],
                                       voters_df[i][reg_date_field],
                                       elections[election],
                                       config["formats"].val["reg_date"],
                                       config[VOTED_VALUES].val)]]
    /\ pc' = "cleaned"
    /\ UNCHANGED <<config, voter_file, err, warnings, filter_on_parties,
                   sorted_vote_histories, voters_df, year_of_birth,
                   effective_reg_date, weighted, weighted_turnout,
                   normalized_turnout>>

\* TurnoutScorer._add_weighted_vote
AddWeightedVote ==
    /\ pc = "cleaned"
    /\ LET r == add_weighted_vote(sorted_vote_histories[1], 1, cleaned, <<>>)
       IN  /\ weighted' = r.weighted
           /\ IF r.err # NoError THEN Fail(r.err)
              ELSE pc' = "weighted" /\ err' = err
    /\ UNCHANGED <<config, voter_file, warnings, filter_on_parties,
                   sorted_vote_histories, voters_df, year_of_birth,
                   effective_reg_date, cleaned, weighted_turnout,
                   normalized_turnout>>

\* TurnoutScorer._add_weighted_turnout, after _add_weighted_vote
AddWeightedTurnout ==
    /\ pc = "weighted"
    /\ weighted_turnout' =
         [i \in 1..Len(voters_df) |->
            get_weighted_sum([k \in 1..Len(sorted_vote_histories[1]) |->
                                weighted[sorted_vote_histories[1][k]][i]], 1)]
    /\ pc' = "summed"
    /\ UNCHANGED <<config, voter_file, err, warnings, filter_on_parties,
                   sorted_vote_histories, voters_df, year_of_birth,
                   effective_reg_date, cleaned, weighted, normalized_turnout>>

\* TurnoutScorer._normalize_turnout
NormalizeTurnout ==
    /\ pc = "summed"
    /\ normalized_turnout' =
         normalize_turnout(weighted_turnout, effective_reg_date)
    /\ pc' = "normalized"
    /\ UNCHANGED <<config, voter_file, err, warnings, filter_on_parties,
                   sorted_vote_histories, voters_df, year_of_birth,
                   effective_reg_date, cleaned, weighted, weighted_turnout>>

Next ==
    \/ ConstructConfig
    \/ PreprocessVf
    \/ AddEffectiveRegDate
    \/ CleanVotingRecord
    \/ AddWeightedVote
    \/ AddWeightedTurnout
    \/ NormalizeTurnout

Spec == Init /\ [][Next]_vars

\* ------------------------------------------------------------------ claims
\* The stages at which a column of the table has been computed.
HasEffectiveRegDate == pc \in {"dated", "cleaned", "weighted", "summed",
                               "normalized"} \/ DOMAIN cleaned # {}

HasCleaned == DOMAIN cleaned # {}

RegDateFormat == config["formats"].val["reg_date"]

RegDateOf(i) == voters_df[i][ColumnName(config, "reg_date_field")]

\* C1: for every voter and election, when the stated and the effective
\* registration date both parse with the configured format, the cleaned
\* label is null if min(stated, effective) is after the election date,
\* else 1 if the raw vote code is in voted_values, else 0.
C1_CleanedLabel ==
    HasCleaned =>
      \A election \in DOMAIN cleaned : \A i \in 1..Len(voters_df) :
        (/\ RegDateOf(i) # None
         /\ Parses(RegDateOf(i)[1], RegDateFormat)
         /\ Parses(effective_reg_date[i], RegDateFormat))
        => LET stated == ParsedDate(RegDateOf(i)[1], RegDateFormat)
               effective == ParsedDate(effective_reg_date[i], RegDateFormat)
               eligibility == IF DateKey(stated) <= DateKey(effective)
                              THEN stated ELSE effective
               election_date == ElectionDate(config[VOTE_HISTORIES].val,
                                             election)
               vote == voters_df[i][election]
           IN  /\ DateKey(eligibility) > DateKey(election_date)
                    => cleaned[election][i] = None
               /\ (/\ DateKey(eligibility) <= DateKey(election_date)
                   /\ \E v \in Range(config[VOTED_VALUES].val) :
                         vote = Some(v))
                    => cleaned[election][i] = Some(1)
               /\ (/\ DateKey(eligibility) <= DateKey(election_date)
                   /\ \A v \in Range(config[VOTED_VALUES].val) :
                         vote # Some(v))
                    => cleaned[election][i] = Some(0)

\* A voter registered in 2017 whose first record is the 2018 election, on
\* the day of which the voter is eligible and voted: 2016 is null, 2018 is 1;
\* and a voter with a null code in an election the voter is eligible for.
C1_Witness ==
    /\ HasCleaned
    /\ \E i \in 1..Len(voters_df) :
         /\ RegDateOf(i) # None
         /\ Parses(RegDateOf(i)[1], RegDateFormat)
         /\ cleaned["g2016"][i] = None
         /\ cleaned["g2018"][i] = Some(1)
    /\ \E i \in 1..Len(voters_df) :
         /\ RegDateOf(i) # None
         /\ Parses(RegDateOf(i)[1], RegDateFormat)
         /\ effective_reg_date[i]
              = strftime(ElectionDate(config[VOTE_HISTORIES].val, "g2016"),
                         RegDateFormat)
         /\ voters_df[i]["g2018"] = None
         /\ cleaned["g2018"][i] = Some(0)

\* C2: the effective registration date of a voter is the date (written in
\* the registration date format) of the earliest election whose raw vote
\* code is neither null nor 'null', and today's date when there is none.
C2_EffectiveRegDate ==
    HasEffectiveRegDate =>
      \A i \in 1..Len(voters_df) :
        LET vhs == config[VOTE_HISTORIES].val
            recorded == {e \in DOMAIN vhs :
                           /\ voters_df[i][e] # None
                           /\ voters_df[i][e] # Some("null")}
        IN  IF recorded = {}
            THEN effective_reg_date[i] = strftime(Today, RegDateFormat)
            ELSE \E e \in recorded :
                   /\ \A other \in recorded :
                        DateKey(ElectionDate(vhs, e))
                          <= DateKey(ElectionDate(vhs, other))
                   /\ effective_reg_date[i]
                        = strftime(ElectionDate(vhs, e), RegDateFormat)

\* Codes [null, 'Y'] and ['Y', 'Y'] over the elections of 2016 and 2018,
\* which the dict yields newest first, and a voter without any record.
C2_Witness ==
    /\ HasEffectiveRegDate
    /\ config[VOTE_HISTORIES].keys = <<"g2018", "g2016">>
    /\ \E i \in 1..Len(voters_df) :
         /\ voters_df[i]["g2016"] = None
         /\ voters_df[i]["g2018"] = Some("Y")
         /\ effective_reg_date[i]
              = strftime(MkDate(2018, 11, 6), RegDateFormat)
    /\ \E i \in 1..Len(voters_df) :
         /\ voters_df[i]["g2016"] = Some("Y")
         /\ voters_df[i]["g2018"] = Some("Y")
         /\ effective_reg_date[i]
              = strftime(MkDate(2016, 11, 8), RegDateFormat)

\* The number of voters of a cleaned column with the given label.
CountOf(col, label) == Cardinality({i \in 1..Len(col) : col[i] = label})

\* The weighted column the turnout weighter owes a cleaned column:
\* cleaned * (1 - voted / eligible), null where cleaned is null.
ExpectedWeighted(col) ==
    LET voted == CountOf(col, Some(1))
        eligible == CountOf(col, Some(1)) + CountOf(col, Some(0))
    IN  [i \in 1..Len(col) |->
           IF col[i] = None THEN None
           ELSE Some(Frac(col[i][1] * (eligible - voted), eligible))]

\* _add_weighted_vote has run.
WeightedVoteRan ==
    /\ HasCleaned
    /\ pc # "cleaned"

\* C3: once _add_weighted_vote has run, every election with at least one
\* non-null cleaned label has its weighted column, computed from its own
\* cleaned column alone: cleaned * (1 - turnout_rate), null kept null.
C3_WeightedVote ==
    WeightedVoteRan =>
      \A election \in DOMAIN cleaned :
        CountOf(cleaned[election], None) < Len(cleaned[election])
          => /\ election \in DOMAIN weighted
             /\ weighted[election] = ExpectedWeighted(cleaned[election])

\* C4: after compute_normalized_turnout, in a cohort whose largest raw
\* score is positive every voter's normalized score is the raw score over
\* that largest score, lies in [0, 1], and some voter of the cohort has 1.
C4_Normalized ==
    pc = "normalized" =>
      \A i \in 1..Len(voters_df) :
        LET cohort == {j \in 1..Len(voters_df) :
                         effective_reg_date[j] = effective_reg_date[i]}
        IN  (\E j \in cohort : weighted_turnout[j][1] > 0)
            => /\ normalized_turnout[i] # None
               /\ \E top \in cohort :
                    /\ \A j \in cohort :
                         FLe(weighted_turnout[j], weighted_turnout[top])
                    /\ normalized_turnout[i][1][1] * weighted_turnout[top][1]
                         * weighted_turnout[i][2]
                       = weighted_turnout[i][1] * normalized_turnout[i][1][2]
                           * weighted_turnout[top][2]
                    /\ normalized_turnout[top] = Some(FOne)
               /\ FLe(FZero, normalized_turnout[i][1])
               /\ FLe(normalized_turnout[i][1], FOne)

\* A cohort of two voters with raw scores 1/2 and 0, normalized to 1 and 0.
C4_Witness ==
    /\ pc = "normalized"
    /\ \E i, j \in 1..Len(voters_df) :
         /\ effective_reg_date[i] = effective_reg_date[j]
         /\ weighted_turnout[i] = <<1, 2>>
         /\ weighted_turnout[j] = FZero
         /\ normalized_turnout[i] = Some(FOne)
         /\ normalized_turnout[j] = Some(FZero)

\* The configuration is valid and every configured column is a column of
\* the voter file: _preprocess_vf gets to project the table.
Projectable ==
    /\ ValidatedConfig(config) = NoError
    /\ s3_creds(config) = NoError
    /\ validate_against_voter_file(config, voter_file.columns) = NoError

NoDerivedColumn ==
    /\ year_of_birth = <<>>
    /\ effective_reg_date = <<>>
    /\ DOMAIN cleaned = {}
    /\ DOMAIN weighted = {}
    /\ weighted_turnout = <<>>
    /\ normalized_turnout = <<>>

\* Two rows of the projected, filtered table are the same.
DuplicateRow ==
    \E i, j \in 1..Len(FilteredVdf(config, voter_file)) :
        /\ i < j
        /\ FilteredVdf(config, voter_file)[i]
             = FilteredVdf(config, voter_file)[j]

\* C5: when the table has an exact duplicate row after projection and
\* party filtering, the run never gets past preprocessing; it ends with
\* RuntimeError, with no table and no derived column.
C5_DuplicatesAbort ==
    (Projectable /\ DuplicateRow) =>
      /\ pc \in {"init", "config", "failed"}
      /\ pc = "failed" => err.type = "RuntimeError"
      /\ voters_df = <<>>
      /\ NoDerivedColumn

\* Two rows that differ in a column the projection drops, rejected.
C5_Witness ==
    /\ Projectable
    /\ DuplicateRow
    /\ pc = "failed"
    /\ err.type = "RuntimeError"
    /\ Len(voter_file.rows) = 2
    /\ voter_file.rows[1]["county"] # voter_file.rows[2]["county"]

\* C6: a voter whose stated registration date is null or 'null' is
\* cleaned by the effective registration date alone, whatever the
\* registration date format: 1 or 0 by voted_values when the effective
\* date is not after the election date, null only when it is after.
C6_NullRegDate ==
    HasCleaned =>
      \A election \in DOMAIN cleaned : \A i \in 1..Len(voters_df) :
        (RegDateOf(i) = None \/ RegDateOf(i) = Some(NullText))
        => LET effective == ParsedDate(effective_reg_date[i], RegDateFormat)
               election_date == ElectionDate(config[VOTE_HISTORIES].val,
                                             election)
               vote == voters_df[i][election]
           IN  cleaned[election][i] =
                 IF DateKey(effective) <= DateKey(election_date)
                 THEN (IF \E v \in Range(config[VOTED_VALUES].val) :
                             vote = Some(v)
                       THEN Some(1) ELSE Some(0))
                 ELSE None

\* C7: when an election has no voter with a non-null cleaned label,
\* _add_weighted_vote does not end in an unrelated error: it reports the
\* election and still gives every election its weighted column.
C7_ZeroDenominator ==
    (/\ WeightedVoteRan
     /\ \E election \in DOMAIN cleaned :
          CountOf(cleaned[election], None) = Len(cleaned[election]))
    => /\ err.type # "TypeError"
       /\ DOMAIN weighted = DOMAIN cleaned

\* C8: after compute_normalized_turnout every voter has a normalized
\* score, in [0, 1], also in a cohort whose largest raw score is 0.
C8_ZeroCohort ==
    pc = "normalized" =>
      \A i \in 1..Len(voters_df) :
        /\ normalized_turnout[i] # None
        /\ FLe(FZero, normalized_turnout[i][1])
        /\ FLe(normalized_turnout[i][1], FOne)

\* parties_included is configured as a non-empty list.
PartiesConfigured ==
    /\ "parties_included" \in DOMAIN config
    /\ config["parties_included"].type = "list"
    /\ Len(config["parties_included"].val) > 0

\* The projected rows whose party is one of the configured parties.
RowsOfParties ==
    SelectSeq(Project(voter_file.rows, columns_to_keep(config)),
              LAMBDA row :
                \E k \in 1..Len(config["parties_included"].val) :
                   row[ColumnName(config, "party_field")]
                     = Some(config["parties_included"].val[k]))

\* C9: once _preprocess_vf has run, party filtering was enabled exactly
\* when parties_included is a non-empty list.  Enabled, exactly the rows
\* of the listed parties are retained, and when there is none the run
\* ends with ValueError naming the parties.  Disabled, a warning is logged,
\* every row is retained and the missing filter is no error, whatever the
\* table contains.  (A table with duplicate rows ends with RuntimeError.)
C9_PartyFilter ==
    (Projectable /\ pc \notin {"init", "config"}) =>
      /\ filter_on_parties = PartiesConfigured
      /\ PartiesConfigured =>
           IF RowsOfParties = <<>>
           THEN /\ pc = "failed"
                /\ err = Error("ValueError",
                               Range(config["parties_included"].val))
           ELSE \/ err.type = "RuntimeError"
                \/ voters_df = RowsOfParties
      /\ ~PartiesConfigured =>
           /\ warnings # {}
           /\ \/ err.type = "RuntimeError"
              \/ /\ voters_df = Project(voter_file.rows,
                                        columns_to_keep(config))
                 /\ err.type \notin {"ValueError", "UnboundLocalError"}

\* The required top-level keys and sub-keys, as the specification lists them.
RequiredKeys ==
    {"voter_file", "column_names", "formats", "vote_histories",
     "voted_values"}

RequiredSubKeys ==
    [voter_file |-> {"bucket", "key_pattern"},
     column_names |-> {"dob_field", "id_field", "party_field",
                       "reg_date_field"},
     formats |-> {"reg_date", "dob"}]

\* A required key is absent, a group has other sub-keys than the required
\* ones, or an election date is not written month-day-year.
ConfigRejected ==
    \/ \E k \in RequiredKeys : k \notin DOMAIN config
    \/ \E g \in DOMAIN RequiredSubKeys :
         /\ g \in DOMAIN config
         /\ config[g].type = "dict"
         /\ DOMAIN config[g].val # RequiredSubKeys[g]
    \/ /\ "vote_histories" \in DOMAIN config
       /\ config["vote_histories"].type = "dict"
       /\ \E e \in DOMAIN config["vote_histories"].val :
            ~Parses(config["vote_histories"].val[e], VHIST_DATE_FORMAT)

\* Every required key with exactly its sub-keys, parseable election dates,
\* and voted_values and parties_included lists.
ConfigAccepted ==
    /\ RequiredKeys \subseteq DOMAIN config
    /\ \A g \in DOMAIN RequiredSubKeys :
         /\ config[g].type = "dict"
         /\ DOMAIN config[g].val = RequiredSubKeys[g]
    /\ config["vote_histories"].type = "dict"
    /\ \A e \in DOMAIN config["vote_histories"].val :
         Parses(config["vote_histories"].val[e], VHIST_DATE_FORMAT)
    /\ config["voted_values"].type = "list"
    /\ "parties_included" \in DOMAIN config
         => config["parties_included"].type = "list"

\* C10: constructing TurnoutConfig fails when a required top-level key is
\* absent, when a group's sub-keys are not exactly the required ones, or
\* when an election date does not parse as MM-DD-YYYY; it succeeds when
\* all of these are in order and voted_values and parties_included are
\* lists.
C10_ConfigValidation ==
    [][ConstructConfig =>
         /\ ConfigRejected => pc' = "failed"
         /\ ConfigAccepted => pc' = "config"]_vars

\* A configuration rejected for an extra sub-key alone: KeyError with no
\* missing sub-key to name.
C10_Witness ==
    /\ pc = "failed"
    /\ err = Error("KeyError", {})
    /\ \E g \in DOMAIN RequiredSubKeys :
         RequiredSubKeys[g] \subseteq DOMAIN config[g].val

\* C11: for every voter whose stated registration date parses with the
\* configured format, every election with a recorded raw vote code
\* (neither null nor 'null') has a non-null cleaned label, 0 or 1: an
\* observed vote record is never classified as ineligible.
C11_RecordedIsEligible ==
    HasCleaned =>
      \A election \in DOMAIN cleaned : \A i \in 1..Len(voters_df) :
        (/\ RegDateOf(i) # None
         /\ Parses(RegDateOf(i)[1], RegDateFormat)
         /\ voters_df[i][election] # None
         /\ voters_df[i][election] # Some("null"))
        => cleaned[election][i] \in {Some(0), Some(1)}

\* A voter whose stated registration date, June 2017, is after the 2016
\* election the voter has a record for: the record counts all the same.
C11_Witness ==
    /\ HasCleaned
    /\ \E i \in 1..Len(voters_df) :
         /\ RegDateOf(i) # None
         /\ Parses(RegDateOf(i)[1], RegDateFormat)
         /\ DateKey(ParsedDate(RegDateOf(i)[1], RegDateFormat))
              > DateKey(ElectionDate(config[VOTE_HISTORIES].val, "g2016"))
         /\ voters_df[i]["g2016"] = Some("N")
         /\ voters_df[i]["g2018"] = Some("Y")
         /\ cleaned["g2016"][i] = Some(0)
         /\ cleaned["g2018"][i] = Some(1)
====
